---- MODULE Spec2Model ----
(***************************************************************************)
(* Model of the batch WAV -> CSV orchestrator (tools/batch_wav2csv.py) and  *)
(* of the converter it launches once per input file (tools/wav2csv.py).     *)
(*                                                                          *)
(* Strings are sequences of one-character strings, so that the code's       *)
(* string operations (sorting by code point, str.replace, the format        *)
(* f"{id:0>3}", os.path.splitext, glob patterns) are computed, not assumed. *)
(***************************************************************************)
EXTENDS Integers, Sequences, FiniteSets, TLC

(***************************************************************************)
(* Strings                                                                  *)
(***************************************************************************)

\* The characters used by the modelled file names, in code-point order.
Alphabet == <<"-", ".", "0", "1", "2", "a", "b", "c", "e", "h", "i", "j",
              "k", "m", "n", "o", "s", "t", "v", "w", "x">>

Ord(c) == CHOOSE i \in 1..Len(Alphabet) : Alphabet[i] = c

\* Python's str < str: lexicographic by code point, a proper prefix is smaller.
RECURSIVE StrLess(_, _)
StrLess(s, t) ==
    IF t = <<>> THEN FALSE
    ELSE IF s = <<>> THEN TRUE
    ELSE IF Head(s) = Head(t) THEN StrLess(Tail(s), Tail(t))
    ELSE Ord(Head(s)) < Ord(Head(t))

StartsWith(s, p) == Len(s) >= Len(p) /\ SubSeq(s, 1, Len(p)) = p

EndsWith(s, p) == Len(s) >= Len(p) /\ SubSeq(s, Len(s) - Len(p) + 1, Len(s)) = p

\* str.replace(old, ""): every non-overlapping occurrence, left to right.
RECURSIVE RemoveAll(_, _)
RemoveAll(s, old) ==
    IF s = <<>> THEN <<>>
    ELSE IF StartsWith(s, old) THEN RemoveAll(SubSeq(s, Len(old) + 1, Len(s)), old)
    ELSE <<Head(s)>> \o RemoveAll(Tail(s), old)

HEXOSKIN == <<"h", "e", "x", "o", "s", "k", "i", "n">>
DOT_WAV == <<".", "w", "a", "v">>
DOT_CSV == <<".", "c", "s", "v">>
DOT_META_JSON == <<".", "m", "e", "t", "a", ".", "j", "s", "o", "n">>

\* The width of the format f"{subject_id:0>3}".
PadWidth == 3

\* f"{s:0>3}": s right-aligned in a field of PadWidth, filled with "0";
\* a longer s is left as it is.
ZeroPad(s) ==
    IF Len(s) >= PadWidth THEN s
    ELSE [i \in 1..(PadWidth - Len(s)) |-> "0"] \o s

\* Index of the last "." of s, 0 when there is none.
LastDot(s) ==
    LET dots == {i \in 1..Len(s) : s[i] = "."}
    IN IF dots = {} THEN 0 ELSE CHOOSE i \in dots : \A j \in dots : j <= i

\* os.path.splitext(name)[0]: name up to its last ".", leading dots excepted.
SplitextRoot(name) ==
    LET d == LastDot(name)
    IN IF d > 1 /\ \E i \in 1..(d - 1) : name[i] # "." THEN SubSeq(name, 1, d - 1)
       ELSE name

\* Path(p).with_suffix(suffix): the last suffix of the name replaced.
WithSuffix(name, suffix) == SplitextRoot(name) \o suffix

\* sorted(list): the list in ascending order (insertion sort; the elements
\* are distinct paths).
RECURSIVE InsertSorted(_, _)
InsertSorted(x, s) ==
    IF s = <<>> THEN <<x>>
    ELSE IF StrLess(x, Head(s)) THEN <<x>> \o s
    ELSE <<Head(s)>> \o InsertSorted(x, Tail(s))

RECURSIVE SortedList(_)
SortedList(list) ==
    IF list = <<>> THEN <<>>
    ELSE InsertSorted(Head(list), SortedList(Tail(list)))

\* The orders in which a directory listing can enumerate the set S.
Listings(S) ==
    {l \in [1..Cardinality(S) -> S] : \A i, j \in 1..Cardinality(S) : i # j => l[i] # l[j]}

Range(s) == {s[i] : i \in 1..Len(s)}

(***************************************************************************)
(* Inputs: the input tree and the command line                              *)
(***************************************************************************)

Id001 == <<"0", "0", "1">>
Id1 == <<"1">>
Id10 == <<"1", "0">>
AWav == <<"a">> \o DOT_WAV
BWav == <<"b">> \o DOT_WAV
NTxt == <<"n", ".", "t", "x", "t">>
Misc == <<"m", "i", "s", "c">>

\* An input tree maps each entry of the input directory to the names of the
\* files in it.
TreeEmpty == [d \in {} |-> {}]
\* no entry matches "*hexoskin"
TreeMisc == (Misc :> {AWav})
\* "10hexoskin" sorts before "1hexoskin"; one subject without WAV files
TreeSort == ((Id10 \o HEXOSKIN) :> {NTxt}) @@ ((Id1 \o HEXOSKIN) :> {BWav, AWav, NTxt})
\* the subject identifiers "001" and "1", with a file of the same name each
TreeClash == ((Id001 \o HEXOSKIN) :> {AWav}) @@ ((Id1 \o HEXOSKIN) :> {AWav})

Trees == {TreeEmpty, TreeMisc, TreeSort, TreeClash}

\* args.subjects after split(","): <<>> stands for an absent or empty
\* --subjects (both are false in "if args.subjects").  "001" selects one of
\* the two subjects of TreeClash and none of TreeSort.
SubjectLists == {<<>>, <<Id001>>}

Args == [resume : BOOLEAN, dry_run : BOOLEAN, subjects : SubjectLists]

\* The number of runs of the orchestrator that the model follows.
MaxRuns == 2

\* subprocess.run(..., timeout=300), in seconds.
TIMEOUT == 300
\* The step of the model's clock, in seconds.
TickStep == 200

(***************************************************************************)
(* Pure functions of the orchestrator                                       *)
(***************************************************************************)

\* glob.glob(os.path.join(input_dir, "*hexoskin")): the matching entries.
\* ("*" matches no leading ".", which no modelled name has.)
GlobHexoskin(t) == {d \in DOMAIN t : EndsWith(d, HEXOSKIN)}

\* glob.glob(os.path.join(hexoskin_dir, "*.wav"))
GlobWav(t, d) == {f \in t[d] : EndsWith(f, DOT_WAV)}

\* Faulty variant: the listing is used in the order glob returned it
Unsorted(list) == list

\* sorted(dirs) of find_hexoskin_directories / sorted(wav_files) of get_wav_files
sorted(list) == SortedList(list)

get_subject_id(hexoskin_dir) == RemoveAll(hexoskin_dir, HEXOSKIN)

\* The directory create_output_structure makes and returns (relative to
\* output_dir).
subject_output_dir_of(subject_id) == ZeroPad(subject_id) \o HEXOSKIN

\* The output file of convert_wav_to_csv: <<directory, name>>.
output_file_of(wav_file, out_dir) == <<out_dir, SplitextRoot(wav_file[2]) \o DOT_CSV>>

\* The descriptor wav2csv.py writes beside the CSV.
meta_path_of(output_file) == <<output_file[1], WithSuffix(output_file[2], DOT_META_JSON)>>

\* Faulty variant: the return code of the converter is not looked at
ConversionResultIgnoresExit(how) ==
    CASE how \in {"exit0", "exit1"} -> [success |-> TRUE, message |-> "Success"]
      [] how = "timeout" -> [success |-> FALSE, message |-> "Timeout"]
      [] OTHER -> [success |-> FALSE, message |-> "Exception"]

\* The (success, message) convert_wav_to_csv returns for each way the
\* launched converter can end.  Messages are kept up to their prefix.
ConversionResult(how) ==
    CASE how = "exit0" -> [success |-> TRUE, message |-> "Success"]
      [] how = "exit1" -> [success |-> FALSE, message |-> "Error"]
      [] how = "timeout" -> [success |-> FALSE, message |-> "Timeout"]
      [] OTHER -> [success |-> FALSE, message |-> "Exception"]

SkippedResult == [success |-> TRUE, message |-> "Skipped (already exists)"]
DryRunResult == [success |-> TRUE, message |-> "Would process"]

\* Faulty variant: existing output is skipped whether or not --resume is given
ResumeSkipsWithoutFlag(a, files, output_file) == output_file \in files

\* Faulty variant: the existence check is lost
ResumeSkipsNever(a, files, output_file) == FALSE

\* The check "args.resume and os.path.exists(output_file)".
ResumeSkips(a, files, output_file) == a.resume /\ output_file \in files

\* The subject filter of main.
FilterDirs(dirs, subject_list) ==
    SelectSeq(dirs, LAMBDA d : get_subject_id(d) \in Range(subject_list))

RECURSIVE SumSeq(_)
SumSeq(s) == IF s = <<>> THEN 0 ELSE Head(s) + SumSeq(Tail(s))

\* Faulty variant: only the outcomes of converters that ran count as successes
CountConverted(results) ==
    Len(SelectSeq(results, LAMBDA r : r.success /\ r.message = "Success"))

\* "sum(1 for r in results if r["success"])"
CountSuccess(results) == Len(SelectSeq(results, LAMBDA r : r.success))

\* The summary process_subject computes.
Summary(results) ==
    [total |-> Len(results),
     success |-> CountSuccess(results),
     failed |-> Len(results) - CountSuccess(results)]

SubjectEntry(hexoskin_dir, files, results) ==
    [subject_id |-> get_subject_id(hexoskin_dir),
     hexoskin_dir |-> hexoskin_dir,
     wav_files |-> files,
     results |-> results,
     summary |-> Summary(results)]

(***************************************************************************)
(* State                                                                    *)
(***************************************************************************)

VARIABLES
    inputExists,    \* os.path.exists(args.input_dir)
    tree,           \* the entries of the input directory and their files
    fs,             \* the output directory: what exists under args.output_dir
    run,            \* the number of runs started
    args,           \* the parsed command line of the current run
    pc,             \* the position of main
    exitCode,       \* "none" while main runs, then 0 or 1
    hexoskin_dirs,  \* main's list of subject directories
    all_results,    \* main's list of subject entries
    di,             \* the number of subjects main's loop has finished
    wav_files,      \* process_subject: the subject's input files
    results,        \* process_subject: the outcomes recorded so far
    child,          \* the launched converter: its phase and the time elapsed
    fsAtStart,      \* history: fs when the current run started
    conv            \* history: how each converter launched in this run ended

\* One run of the converter on one file, looked at from the inside
\* (tools/wav2csv.py), and the job entry the orchestrator derives from it.
VARIABLES
    wav,            \* the input file: its header fields and its frame bytes
    flags,          \* --normalize and --mono
    cpc,            \* the position of the converter's main
    x,              \* the sample array the converter holds
    csv_file,       \* the CSV the converter has written
    meta_file,      \* the descriptor the converter has written
    rc,             \* the converter's exit code
    job_entry       \* what convert_wav_to_csv returns for this run

\* One run of the expenditure calculator (caloricExpenditure.py).
VARIABLES
    df,             \* the rows read from the triaxial CSV
    user_data,      \* age, weight and gender as entered
    epc,            \* the position of the calculator
    triaxial_counts,  \* the epoch series
    expenditures,   \* the per-epoch estimates appended so far
    activity_expenditure  \* the returned total

batchVars == <<inputExists, tree, fs, run, args, pc, exitCode, hexoskin_dirs,
               all_results, di, wav_files, results, child, fsAtStart, conv>>

converterVars == <<wav, flags, cpc, x, csv_file, meta_file, rc, job_entry>>

calculatorVars == <<df, user_data, epc, triaxial_counts, expenditures,
                    activity_expenditure>>

vars == <<batchVars, converterVars, calculatorVars>>

\* The converter and the calculator when they are not what is being run.
ConverterOff ==
    /\ wav = <<>>
    /\ flags = <<>>
    /\ cpc = "off"
    /\ x = <<>>
    /\ csv_file = <<>>
    /\ meta_file = <<>>
    /\ rc = "none"
    /\ job_entry = <<>>

CalculatorOff ==
    /\ df = <<>>
    /\ user_data = <<>>
    /\ epc = "off"
    /\ triaxial_counts = <<>>
    /\ expenditures = <<>>
    /\ activity_expenditure = <<>>

NoChild == [phase |-> "none", elapsed |-> 0]

NoReport == [written |-> FALSE, args |-> <<>>, results |-> <<>>]

\* An output directory that does not exist yet.
EmptyFs ==
    [root |-> FALSE,     \* args.output_dir exists
     dirs |-> {},        \* the subject directories under it
     csv |-> {},         \* the CSV files that exist
     whole |-> {},       \* those of them written to their last row
     meta |-> {},        \* the descriptors that exist
     report |-> NoReport]  \* batch_conversion_results.json

Init ==
    /\ inputExists \in BOOLEAN
    /\ tree \in (IF inputExists THEN Trees ELSE {TreeEmpty})
    /\ fs = EmptyFs
    /\ run = 0
    /\ args = [resume |-> FALSE, dry_run |-> FALSE, subjects |-> <<>>]
    /\ pc = "idle"
    /\ exitCode = "none"
    /\ hexoskin_dirs = <<>>
    /\ all_results = <<>>
    /\ di = 0
    /\ wav_files = <<>>
    /\ results = <<>>
    /\ child = NoChild
    /\ fsAtStart = EmptyFs
    /\ conv = {}
    /\ ConverterOff
    /\ CalculatorOff

\* The subject main's loop is at, and the file process_subject's loop is at.
hexoskin_dir == hexoskin_dirs[di + 1]
subject_output_dir == subject_output_dir_of(get_subject_id(hexoskin_dir))
wav_file == wav_files[Len(results) + 1]
output_file == output_file_of(wav_file, subject_output_dir)

(***************************************************************************)
(* main                                                                     *)
(***************************************************************************)

\* The command is run (again): argparse, and the locals of a fresh process.
StartRun ==
    /\ pc \in {"idle", "exited"}
    /\ run < MaxRuns
    /\ run' = run + 1
    /\ args' \in Args
    /\ pc' = "validate"
    /\ exitCode' = "none"
    /\ hexoskin_dirs' = <<>>
    /\ all_results' = <<>>
    /\ di' = 0
    /\ wav_files' = <<>>
    /\ results' = <<>>
    /\ fsAtStart' = fs
    /\ conv' = {}
    /\ UNCHANGED <<converterVars, calculatorVars,
                   inputExists, tree, fs, child>>

Exit(code) ==
    /\ pc' = "exited"
    /\ exitCode' = code

\* "if not os.path.exists(args.input_dir): ... sys.exit(1)"
ValidateInput ==
    /\ pc = "validate"
    /\ IF inputExists THEN pc' = "find" /\ UNCHANGED exitCode ELSE Exit(1)
    /\ UNCHANGED <<converterVars, calculatorVars,
                   inputExists, tree, fs, run, args, hexoskin_dirs, all_results,
                   di, wav_files, results, child, fsAtStart, conv>>

\* "hexoskin_dirs = find_hexoskin_directories(...)"; exit 1 when it is empty.
FindDirs ==
    /\ pc = "find"
    /\ \E listing \in Listings(GlobHexoskin(tree)) :
          /\ hexoskin_dirs' = sorted(listing)
          /\ IF listing = <<>> THEN Exit(1) ELSE pc' = "filter" /\ UNCHANGED exitCode
    /\ UNCHANGED <<converterVars, calculatorVars,
                   inputExists, tree, fs, run, args, all_results, di, wav_files,
                   results, child, fsAtStart, conv>>

\* Faulty variant: the check for an empty filter result is missing
FilterSubjectsNoExit ==
    /\ pc = "filter"
    /\ hexoskin_dirs' = (IF args.subjects # <<>> THEN FilterDirs(hexoskin_dirs, args.subjects)
                         ELSE hexoskin_dirs)
    /\ pc' = "mkdir"
    /\ UNCHANGED <<converterVars, calculatorVars,
                   inputExists, tree, fs, run, args, exitCode, all_results, di,
                   wav_files, results, child, fsAtStart, conv>>

\* "if args.subjects: ..."; exit 1 when the filter leaves nothing.
FilterSubjects ==
    /\ pc = "filter"
    /\ IF args.subjects # <<>>
       THEN /\ hexoskin_dirs' = FilterDirs(hexoskin_dirs, args.subjects)
            /\ IF hexoskin_dirs' = <<>> THEN Exit(1)
               ELSE pc' = "mkdir" /\ UNCHANGED exitCode
       ELSE pc' = "mkdir" /\ UNCHANGED <<hexoskin_dirs, exitCode>>
    /\ UNCHANGED <<converterVars, calculatorVars,
                   inputExists, tree, fs, run, args, all_results, di, wav_files,
                   results, child, fsAtStart, conv>>

\* "os.makedirs(args.output_dir, exist_ok=True)"
MakeOutputDir ==
    /\ pc = "mkdir"
    /\ fs' = [fs EXCEPT !.root = TRUE]
    /\ pc' = "subjects"
    /\ UNCHANGED <<converterVars, calculatorVars,
                   inputExists, tree, run, args, exitCode, hexoskin_dirs,
                   all_results, di, wav_files, results, child, fsAtStart, conv>>

(***************************************************************************)
(* process_subject and convert_wav_to_csv                                   *)
(***************************************************************************)

\* get_wav_files: the sorted paths <<directory, name>> of a subject's WAV
\* files (the paths share the directory, so their order is that of the names).
get_wav_files(d, listing) == [i \in 1..Len(listing) |-> <<d, sorted(listing)[i]>>]

\* create_output_structure: os.makedirs(subject_output_dir, exist_ok=True),
\* which makes the missing parents too.
create_output_structure(f, out_dir) ==
    [f EXCEPT !.root = TRUE, !.dirs = @ \cup {out_dir}]

\* The head of main's loop and the start of process_subject, up to its
\* early return for a subject without WAV files.
ProcessSubject ==
    /\ pc = "subjects"
    /\ di < Len(hexoskin_dirs)
    /\ fs' = create_output_structure(fs, subject_output_dir)
    /\ \E listing \in Listings(GlobWav(tree, hexoskin_dir)) :
          LET files == get_wav_files(hexoskin_dir, listing)
          IN IF files = <<>>
             THEN /\ all_results' = Append(all_results, SubjectEntry(hexoskin_dir, <<>>, <<>>))
                  /\ di' = di + 1
                  /\ UNCHANGED <<pc, wav_files>>
             ELSE /\ wav_files' = files
                  /\ pc' = "files"
                  /\ UNCHANGED <<all_results, di>>
    /\ results' = <<>>
    /\ UNCHANGED <<converterVars, calculatorVars,
                   inputExists, tree, run, args, exitCode, hexoskin_dirs, child,
                   fsAtStart, conv>>

Entry(file, r) == [wav_file |-> file, success |-> r.success, message |-> r.message]

\* Faulty variant: the dry-run branch is missing: the file is converted
DryRunFileConverts ==
    /\ pc = "files"
    /\ Len(results) < Len(wav_files)
    /\ args.dry_run
    /\ pc' = "running"
    /\ child' = [phase |-> "spawn", elapsed |-> 0]
    /\ UNCHANGED <<converterVars, calculatorVars,
                   inputExists, tree, fs, run, args, exitCode, hexoskin_dirs,
                   all_results, di, wav_files, results, fsAtStart, conv>>

\* Faulty variant: the resume check comes before the dry-run check
DryRunFileAfterResume ==
    /\ pc = "files"
    /\ Len(results) < Len(wav_files)
    /\ args.dry_run
    /\ results' = Append(results,
                         Entry(wav_file, IF ResumeSkips(args, fs.csv, output_file)
                                         THEN SkippedResult ELSE DryRunResult))
    /\ UNCHANGED <<converterVars, calculatorVars,
                   inputExists, tree, fs, run, args, pc, exitCode, hexoskin_dirs,
                   all_results, di, wav_files, child, fsAtStart, conv>>

\* "if args.dry_run: results.append(... 'Would process')"
DryRunFile ==
    /\ pc = "files"
    /\ Len(results) < Len(wav_files)
    /\ args.dry_run
    /\ results' = Append(results, Entry(wav_file, DryRunResult))
    /\ UNCHANGED <<converterVars, calculatorVars,
                   inputExists, tree, fs, run, args, pc, exitCode, hexoskin_dirs,
                   all_results, di, wav_files, child, fsAtStart, conv>>

\* convert_wav_to_csv returns "Skipped (already exists)".
SkipFile ==
    /\ pc = "files"
    /\ Len(results) < Len(wav_files)
    /\ ~args.dry_run
    /\ ResumeSkips(args, fs.csv, output_file)
    /\ results' = Append(results, Entry(wav_file, SkippedResult))
    /\ UNCHANGED <<converterVars, calculatorVars,
                   inputExists, tree, fs, run, args, pc, exitCode, hexoskin_dirs,
                   all_results, di, wav_files, child, fsAtStart, conv>>

\* Faulty variant: the converter is started without waiting for it: its job
\* is recorded at once and the loop goes on to the next file
LaunchDoesNotWait ==
    /\ pc = "files"
    /\ Len(results) < Len(wav_files)
    /\ ~args.dry_run
    /\ ~ResumeSkips(args, fs.csv, output_file)
    /\ results' = Append(results, Entry(wav_file, ConversionResult("exit0")))
    /\ child' = [phase |-> "spawn", elapsed |-> 0]
    /\ UNCHANGED <<converterVars, calculatorVars,
                   inputExists, tree, fs, run, args, pc, exitCode, hexoskin_dirs,
                   all_results, di, wav_files, fsAtStart, conv>>

\* convert_wav_to_csv reaches subprocess.run.
Launch ==
    /\ pc = "files"
    /\ Len(results) < Len(wav_files)
    /\ ~args.dry_run
    /\ ~ResumeSkips(args, fs.csv, output_file)
    /\ pc' = "running"
    /\ child' = [phase |-> "spawn", elapsed |-> 0]
    /\ UNCHANGED <<converterVars, calculatorVars,
                   inputExists, tree, fs, run, args, exitCode, hexoskin_dirs,
                   all_results, di, wav_files, results, fsAtStart, conv>>

\* subprocess.run ends in the way `how`; convert_wav_to_csv returns and
\* process_subject appends the outcome.
Record(how) ==
    /\ results' = Append(results, Entry(wav_file, ConversionResult(how)))
    /\ conv' = conv \cup {[job |-> wav_file, how |-> how, late |-> child.elapsed > TIMEOUT]}
    /\ child' = NoChild
    /\ pc' = "files"

ChildAlive == pc = "running" /\ child.phase \in {"decode", "write", "csv_done"}

\* The converter cannot be started: subprocess.run raises (an OSError).
SpawnFails ==
    /\ pc = "running"
    /\ child.phase = "spawn"
    /\ Record("spawn_error")
    /\ UNCHANGED <<converterVars, calculatorVars,
                   inputExists, tree, fs, run, args, exitCode, hexoskin_dirs,
                   all_results, di, wav_files, fsAtStart>>

\* The converter starts: wav2csv.py main runs read_wav_file.
SpawnOk ==
    /\ pc = "running"
    /\ child.phase = "spawn"
    /\ child' = [child EXCEPT !.phase = "decode"]
    /\ UNCHANGED <<converterVars, calculatorVars,
                   inputExists, tree, fs, run, args, pc, exitCode, hexoskin_dirs,
                   all_results, di, wav_files, results, fsAtStart, conv>>

\* read_wav_file returned; np.savetxt opens the CSV for writing, which
\* creates it or empties the one that was there.
DecodeOk ==
    /\ ChildAlive
    /\ child.phase = "decode"
    /\ child.elapsed <= TIMEOUT
    /\ child' = [child EXCEPT !.phase = "write"]
    /\ fs' = [fs EXCEPT !.csv = @ \cup {output_file}, !.whole = @ \ {output_file}]
    /\ UNCHANGED <<converterVars, calculatorVars,
                   inputExists, tree, run, args, pc, exitCode, hexoskin_dirs,
                   all_results, di, wav_files, results, fsAtStart, conv>>

\* np.savetxt wrote the last row.
CsvWritten ==
    /\ ChildAlive
    /\ child.phase = "write"
    /\ child.elapsed <= TIMEOUT
    /\ child' = [child EXCEPT !.phase = "csv_done"]
    /\ fs' = [fs EXCEPT !.whole = @ \cup {output_file}]
    /\ UNCHANGED <<converterVars, calculatorVars,
                   inputExists, tree, run, args, pc, exitCode, hexoskin_dirs,
                   all_results, di, wav_files, results, fsAtStart, conv>>

\* The descriptor is written and the converter exits 0.
ConvertSucceeds ==
    /\ ChildAlive
    /\ child.phase = "csv_done"
    /\ child.elapsed <= TIMEOUT
    /\ fs' = [fs EXCEPT !.meta = @ \cup {meta_path_of(output_file)}]
    /\ Record("exit0")
    /\ UNCHANGED <<converterVars, calculatorVars,
                   inputExists, tree, run, args, exitCode, hexoskin_dirs,
                   all_results, di, wav_files, fsAtStart>>

\* Faulty variant: a failed conversion is not caught: the orchestrator exits 1
ConvertFailsAborts ==
    /\ ChildAlive
    /\ child.elapsed <= TIMEOUT
    /\ conv' = conv \cup {[job |-> wav_file, how |-> "exit1", late |-> FALSE]}
    /\ child' = NoChild
    /\ Exit(1)
    /\ UNCHANGED <<converterVars, calculatorVars,
                   inputExists, tree, fs, run, args, hexoskin_dirs, all_results,
                   di, wav_files, results, fsAtStart>>

\* The converter exits 1: read_wav_file or a write raised ("except Exception
\* ... sys.exit(1)"), leaving what it had written.
ConvertFails ==
    /\ ChildAlive
    /\ child.elapsed <= TIMEOUT
    /\ Record("exit1")
    /\ UNCHANGED <<converterVars, calculatorVars,
                   inputExists, tree, fs, run, args, exitCode, hexoskin_dirs,
                   all_results, di, wav_files, fsAtStart>>

\* Time passes while the converter runs.
Tick ==
    /\ ChildAlive
    /\ child.elapsed <= TIMEOUT
    /\ child' = [child EXCEPT !.elapsed = @ + TickStep]
    /\ UNCHANGED <<converterVars, calculatorVars,
                   inputExists, tree, fs, run, args, pc, exitCode, hexoskin_dirs,
                   all_results, di, wav_files, results, fsAtStart, conv>>

\* Faulty variant: TimeoutExpired is not caught: the orchestrator exits 1
TimeoutExpiredAborts ==
    /\ ChildAlive
    /\ child.elapsed > TIMEOUT
    /\ conv' = conv \cup {[job |-> wav_file, how |-> "timeout", late |-> TRUE]}
    /\ child' = NoChild
    /\ Exit(1)
    /\ UNCHANGED <<converterVars, calculatorVars,
                   inputExists, tree, fs, run, args, hexoskin_dirs, all_results,
                   di, wav_files, results, fsAtStart>>

\* subprocess.run kills the converter and raises TimeoutExpired.
TimeoutExpired ==
    /\ ChildAlive
    /\ child.elapsed > TIMEOUT
    /\ Record("timeout")
    /\ UNCHANGED <<converterVars, calculatorVars,
                   inputExists, tree, fs, run, args, exitCode, hexoskin_dirs,
                   all_results, di, wav_files, fsAtStart>>

\* Faulty variant: the subject's entry replaces the list instead of extending it
EndSubjectOverwrites ==
    /\ pc = "files"
    /\ Len(results) = Len(wav_files)
    /\ all_results' = <<SubjectEntry(hexoskin_dir, wav_files, results)>>
    /\ di' = di + 1
    /\ pc' = "subjects"
    /\ wav_files' = <<>>
    /\ results' = <<>>
    /\ UNCHANGED <<converterVars, calculatorVars,
                   inputExists, tree, fs, run, args, exitCode, hexoskin_dirs, child,
                   fsAtStart, conv>>

\* The end of process_subject (the summary) and "all_results.append(result)".
EndSubject ==
    /\ pc = "files"
    /\ Len(results) = Len(wav_files)
    /\ all_results' = Append(all_results, SubjectEntry(hexoskin_dir, wav_files, results))
    /\ di' = di + 1
    /\ pc' = "subjects"
    /\ wav_files' = <<>>
    /\ results' = <<>>
    /\ UNCHANGED <<converterVars, calculatorVars,
                   inputExists, tree, fs, run, args, exitCode, hexoskin_dirs, child,
                   fsAtStart, conv>>

\* After the loop: print_summary, the report is written, main returns.
SaveReport ==
    /\ pc = "subjects"
    /\ di = Len(hexoskin_dirs)
    /\ fs' = [fs EXCEPT !.report = [written |-> TRUE, args |-> args, results |-> all_results]]
    /\ Exit(0)
    /\ UNCHANGED <<converterVars, calculatorVars,
                   inputExists, tree, run, args, hexoskin_dirs, all_results, di,
                   wav_files, results, child, fsAtStart, conv>>

(***************************************************************************)
(* Specifications                                                           *)
(***************************************************************************)

\* The steps of the orchestrator itself.
MainStep ==
    \/ ValidateInput
    \/ FindDirs
    \/ FilterSubjects
    \/ MakeOutputDir
    \/ ProcessSubject
    \/ DryRunFile
    \/ SkipFile
    \/ Launch
    \/ EndSubject
    \/ SaveReport

\* The steps of the launched converter and of the clock.
ChildStep ==
    \/ SpawnFails
    \/ SpawnOk
    \/ DecodeOk
    \/ CsvWritten
    \/ ConvertSucceeds
    \/ ConvertFails
    \/ Tick
    \/ TimeoutExpired

Next == StartRun \/ MainStep \/ ChildStep

Spec == Init /\ [][Next]_vars

\* The interpreter always takes main's next step, starting a process returns
\* or raises, the clock advances while a converter runs and subprocess.run
\* enforces its timeout.  Nothing obliges the converter to progress, nor the
\* user to run the command again.
Fairness ==
    /\ WF_vars(MainStep)
    /\ WF_vars(SpawnOk \/ SpawnFails)
    /\ WF_vars(Tick)
    /\ WF_vars(TimeoutExpired)

FairSpec == Spec /\ Fairness

(***************************************************************************)
(* float32 arithmetic (numpy.float32, IEEE 754 binary32, round to nearest,  *)
(* ties to even).  A float is [m, e] and stands for m * 2^e; it is zero     *)
(* (m = 0, e = 0) or has 2^23 <= |m| < 2^24.  The values of the model stay  *)
(* far from the exponent limits, so overflow and subnormals do not occur.   *)
(***************************************************************************)

Abs(n) == IF n < 0 THEN -n ELSE n

\* The bits of a float32 significand.
MantBits == 24

MantMax == 2^MantBits

FZero == [m |-> 0, e |-> 0]

FOne == [m |-> 2^(MantBits - 1), e |-> -(MantBits - 1)]

FNeg(a) == [m |-> -(a.m), e |-> a.e]

\* m * 2^e with |m| <= 2^24, brought to the normal form.
FNormal(m, e) ==
    IF m = 0 THEN FZero
    ELSE IF Abs(m) >= MantMax THEN [m |-> m \div 2, e |-> e + 1]
    ELSE LET s == CHOOSE s \in 0..(MantBits - 1) :
                      /\ Abs(m) * 2^s >= 2^(MantBits - 1)
                      /\ Abs(m) * 2^s < MantMax
         IN [m |-> m * 2^s, e |-> e - s]

\* The number of low bits of t that do not fit a significand.
FExcess(t) ==
    CHOOSE k \in 0..8 :
        /\ (t \div 2^k) >= -MantMax /\ (t \div 2^k) < MantMax
        /\ \A j \in 0..(k - 1) : ~((t \div 2^j) >= -MantMax /\ (t \div 2^j) < MantMax)

\* The float nearest to (t + f) * 2^e, where 0 <= f < 1 and f > 0 iff sticky.
FRound(t, sticky, e) ==
    LET k == FExcess(t)
        q == t \div 2^k
        r == t % 2^k
        up == \/ 2 * r > 2^k
              \/ 2 * r = 2^k /\ (sticky \/ q % 2 = 1)
    IN FNormal(IF up THEN q + 1 ELSE q, e + k)

\* ndarray.astype(np.float32) of an integer.
F32(n) == FRound(n, FALSE, 0)

\* The bits kept below the larger operand's unit by an addition.
GuardBits == 3

\* a + b in float32.
FAdd(a, b) ==
    IF a.m = 0 THEN b
    ELSE IF b.m = 0 THEN a
    ELSE LET big == IF a.e >= b.e THEN a ELSE b
             small == IF a.e >= b.e THEN b ELSE a
             g == big.e - small.e
             far == g > GuardBits
             div == IF ~far THEN 1 ELSE IF g - GuardBits > 30 THEN 2^30 ELSE 2^(g - GuardBits)
             t == IF far THEN small.m \div div ELSE small.m * 2^(GuardBits - g)
             sticky == far /\ small.m % div # 0
         IN FRound(big.m * 2^GuardBits + t, sticky, big.e - GuardBits)

\* The quotient bits of a long division: <<quotient, remainder>> after the
\* given number of further bits.
RECURSIVE LongDiv(_, _, _, _)
LongDiv(q, rem, n, bits) ==
    IF bits = 0 THEN <<q, rem>>
    ELSE LongDiv(2 * q + ((2 * rem) \div n), (2 * rem) % n, n, bits - 1)

\* a / b in float32 (b # 0).
FDiv(a, b) ==
    IF a.m = 0 THEN FZero
    ELSE LET A == Abs(a.m)
             B == Abs(b.m)
             d == LongDiv(A \div B, A % B, B, MantBits + 1)
             v == FRound(d[1], d[2] # 0, a.e - b.e - (MantBits + 1))
         IN IF (a.m < 0) = (b.m < 0) THEN v ELSE FNeg(v)

\* a < b, and |a| <= 1.0.
FLess(a, b) ==
    IF a.m < 0 /\ b.m < 0 THEN
        \/ a.e > b.e
        \/ a.e = b.e /\ a.m < b.m
    ELSE IF a.m > 0 /\ b.m > 0 THEN
        \/ a.e < b.e
        \/ a.e = b.e /\ a.m < b.m
    ELSE a.m < b.m

FLeq(a, b) == a = b \/ FLess(a, b)

FAbs(a) == [m |-> Abs(a.m), e |-> a.e]

(***************************************************************************)
(* The converter's functions (tools/wav2csv.py)                             *)
(***************************************************************************)

\* The sample widths read_wav_file has a branch for.
SupportedWidths == {1, 2, 4}

\* The little-endian bytes of the two's complement of v on width bytes; an
\* 8-bit WAV stores v + 128 as one unsigned byte.  (What a WAV writer does:
\* it builds the input files of the model.)
Encode(v, width) ==
    IF width = 1 THEN <<v + 128>>
    ELSE [i \in 1..width |-> (v \div 256^(i - 1)) % 256]

\* One element of np.frombuffer(frames, dtype): the bytes b read as an
\* unsigned byte, or as a little-endian signed integer.
FromBytes(b) ==
    IF Len(b) = 1 THEN b[1]
    ELSE LET top == IF b[Len(b)] >= 128 THEN b[Len(b)] - 256 ELSE b[Len(b)]
             RECURSIVE Low(_)
             Low(i) == IF i = 0 THEN 0 ELSE b[i] * 256^(i - 1) + Low(i - 1)
         IN top * 256^(Len(b) - 1) + Low(Len(b) - 1)

\* np.frombuffer(frames, dtype) for an item size that divides the length.
FromBuffer(frames, width) ==
    [i \in 1..(Len(frames) \div width) |->
        FromBytes(SubSeq(frames, (i - 1) * width + 1, i * width))]

\* The dtype of the array read_wav_file returns for each sample width.
DtypeOfWidth(width) == IF width = 4 THEN "int32" ELSE "int16"

\* data.reshape(-1, n_channels)
Reshape(data, n_channels) ==
    [i \in 1..(Len(data) \div n_channels) |->
        SubSeq(data, (i - 1) * n_channels + 1, i * n_channels)]

\* Whether read_wav_file returns for this file, instead of raising.
Decodable(w) ==
    /\ w.sample_width \in SupportedWidths
    /\ Len(w.frames) % w.sample_width = 0
    /\ w.n_channels > 1 => (Len(w.frames) \div w.sample_width) % w.n_channels = 0

\* Faulty variant: the midpoint is taken for 127
RebiasBy127(v) == v - 127

\* 8-bit samples are read unsigned and the midpoint is taken off:
\* "data.astype(np.int16) - 128".
Rebias(v) == v - 128

\* The array read_wav_file returns: one-dimensional for a single channel,
\* else of shape (len(rows), cols).
read_wav_file(w) ==
    LET raw == FromBuffer(w.frames, w.sample_width)
        data == IF w.sample_width = 1 THEN [i \in 1..Len(raw) |-> Rebias(raw[i])]
                ELSE raw
    IN [ndim |-> IF w.n_channels > 1 THEN 2 ELSE 1,
        dtype |-> DtypeOfWidth(w.sample_width),
        cols |-> IF w.n_channels > 1 THEN w.n_channels ELSE 0,
        rows |-> IF w.n_channels > 1 THEN Reshape(data, w.n_channels) ELSE data]

\* np.iinfo(dtype): min and max; min is -max - 1.
IInfoMax(dtype) ==
    CASE dtype = "int16" -> 32767
      [] dtype = "int32" -> 2147483647

IInfoMin(dtype) == -IInfoMax(dtype) - 1

\* float(max(abs(info.min), info.max)), as the float32 the division uses.
\* abs(info.min) is info.max + 1, so it is the maximum.
DenomOfMax(dtype) == F32(IInfoMax(dtype))

Denom(dtype) ==
    IF -(IInfoMin(dtype) + 1) >= IInfoMax(dtype)
    THEN FNeg(F32(IInfoMin(dtype)))
    ELSE F32(IInfoMax(dtype))

\* normalize_audio for the integer arrays read_wav_file returns: every
\* element is converted to float32 and divided.
normalize_audio(arr) ==
    LET denom == Denom(arr.dtype)
        f(v) == FDiv(F32(v), denom)
    IN [ndim |-> arr.ndim, dtype |-> "float32", cols |-> arr.cols,
        rows |-> IF arr.ndim = 1
                 THEN [i \in 1..Len(arr.rows) |-> f(arr.rows[i])]
                 ELSE [i \in 1..Len(arr.rows) |->
                          [j \in 1..Len(arr.rows[i]) |-> f(arr.rows[i][j])]]]

\* The mean of a row of integers, as numpy computes it in float64: the sum
\* is exact there, and so is the quotient whenever it is a multiple of 2^-29
\* (always, for two channels); otherwise it is the double nearest to it.
\* The mean is w + r / n with 0 <= r < n.
RECURSIVE MeanFrom(_, _, _, _)
MeanFrom(row, n, w, r) ==
    IF row = <<>> THEN [w |-> w, r |-> r, n |-> n]
    ELSE LET rr == r + (Head(row) % n)
             carry == IF rr >= n THEN 1 ELSE 0
         IN MeanFrom(Tail(row), n, w + ((Head(row) \div n) + carry), rr - carry * n)

IntMean(row) == MeanFrom(row, Len(row), 0, 0)

\* The mean of a row of float32: np.add.reduce in float32, from the left,
\* then the division by the count.
RECURSIVE FSum(_)
FSum(row) == IF Len(row) = 1 THEN row[1]
             ELSE FAdd(FSum(SubSeq(row, 1, Len(row) - 1)), row[Len(row)])

FloatMean(row) == FDiv(FSum(row), F32(Len(row)))

\* Faulty variant: the first channel is taken instead of the mean
MixTakesFirst(a) ==
    IF a.ndim = 1 THEN a
    ELSE [ndim |-> 1,
          dtype |-> IF a.dtype = "float32" THEN "float32" ELSE "float64",
          cols |-> 0,
          rows |-> [i \in 1..Len(a.rows) |->
                      IF a.dtype = "float32" THEN a.rows[i][1]
                      ELSE [w |-> a.rows[i][1], r |-> 0, n |-> Len(a.rows[i])]]]

\* mix_to_mono: "if x.ndim == 1: return x" and "x.mean(axis=1)".
mix_to_mono(a) ==
    IF a.ndim = 1 THEN a
    ELSE [ndim |-> 1,
          dtype |-> IF a.dtype = "float32" THEN "float32" ELSE "float64",
          cols |-> 0,
          rows |-> [i \in 1..Len(a.rows) |->
                      IF a.dtype = "float32" THEN FloatMean(a.rows[i])
                      ELSE IntMean(a.rows[i])]]

\* '%.7g' of the non-negative quotient num / den: [d, e] stands for the
\* decimal d * 10^e, d without trailing zeros, of at most SigDigits digits.
\* (The quotient is rounded half to even; Python rounds the double nearest to
\* it, which is the same away from exact ties.)
SigDigits == 7

RECURSIVE Digits(_, _, _, _)
Digits(d, rem, den, e) ==
    IF d >= 10^(SigDigits - 1) THEN <<d, rem, e>>
    ELSE Digits(10 * d + ((10 * rem) \div den), (10 * rem) % den, den, e - 1)

RECURSIVE Strip(_, _)
Strip(d, e) == IF d # 0 /\ d % 10 = 0 THEN Strip(d \div 10, e + 1) ELSE [d |-> d, e |-> e]

FormatG7Truncates(num, den) ==
    IF num = 0 THEN [d |-> 0, e |-> 0]
    ELSE LET t == Digits(num \div den, num % den, den, 0)
         IN Strip(t[1], t[3])

FormatG7(num, den) ==
    IF num = 0 THEN [d |-> 0, e |-> 0]
    ELSE LET t == Digits(num \div den, num % den, den, 0)
             up == 2 * t[2] > den \/ (2 * t[2] = den /\ t[1] % 2 = 1)
         IN Strip(IF up THEN t[1] + 1 ELSE t[1], t[3])

\* The number of columns of an array: x.shape[1], or one if x.ndim == 1.
Columns(a) == IF a.ndim = 1 THEN 1 ELSE a.cols

\* "Time_s,Ch1" or "Time_s," + ",".join(f"Ch{i+1}" ...)
HeaderOf(a) ==
    <<"Time_s">> \o [i \in 1..Columns(a) |-> <<"Ch", i>>]

\* The rows np.savetxt writes: the time np.arange(n_samples) / float(sr) and
\* one cell per column (the cells' text is not modelled, their number is).
CsvRows(a, sr) ==
    [i \in 1..Len(a.rows) |->
        [time |-> FormatG7(i - 1, sr), cells |-> Columns(a)]]

\* The descriptor's fields that depend on the data; duration_s is the
\* double nearest to samples / sr, kept as that quotient.
MetaOf(a, sr, f) ==
    [samplerate_hz |-> sr,
     samples |-> Len(a.rows),
     channels |-> Columns(a),
     duration_s |-> [num |-> Len(a.rows), den |-> sr],
     dtype |-> a.dtype,
     normalized |-> f.normalize,
     mixed_to_mono |-> f.mono]

(***************************************************************************)
(* The converter's run (tools/wav2csv.py, main)                             *)
(***************************************************************************)

\* The sample values the input files are built from: for each width the
\* ends of the range and values around zero; for 32 bits a value a float32
\* cannot hold and one whose triple it cannot hold.
SampleValues(width) ==
    CASE width = 1 -> {-128, -1, 0, 1, 127}
      [] width = 2 -> {-32768, -1, 0, 1, 32767}
      [] width = 4 -> {-2147483647 - 1, -16777217, 0, 16777214, 2147483647}
      [] OTHER -> {0}

Lowest(width) == CHOOSE v \in SampleValues(width) : \A u \in SampleValues(width) : v <= u

Highest(width) == CHOOSE v \in SampleValues(width) : \A u \in SampleValues(width) : v >= u

\* The frames of the input files: every sample value on all channels, and
\* frames whose channels differ.
FramesOf(width, n_channels) ==
    {[c \in 1..n_channels |-> v] : v \in SampleValues(width)}
    \cup (IF n_channels = 1 \/ width \notin SupportedWidths THEN {}
          ELSE {[c \in 1..n_channels |-> IF c = 1 THEN Lowest(width) ELSE Highest(width)],
                [c \in 1..n_channels |-> IF c = 1 THEN 1 ELSE 0],
                [c \in 1..n_channels |-> IF c = 1 THEN Highest(width) ELSE -1]})

MaxFrames == 2

Widths == {1, 2, 3, 4}

ChannelCounts == {1, 2, 3}

FrameRates == {6, 8000}

RECURSIVE Flat(_)
Flat(ss) == IF ss = <<>> THEN <<>> ELSE Head(ss) \o Flat(Tail(ss))

\* The bytes of a stream of frames.
FrameBytes(stream, width) ==
    Flat([i \in 1..Len(stream) |->
            Flat([c \in 1..Len(stream[i]) |-> Encode(stream[i][c], width)])])

\* The well-formed input files: the header says what the data are.
WavFiles ==
    {[n_channels |-> c, sample_width |-> w, framerate |-> r, n_frames |-> Len(st),
      frames |-> FrameBytes(st, w)] :
        <<c, w, r, st>> \in
            UNION {{<<c, w, r, st>> : st \in UNION {[1..n -> FramesOf(w, c)] : n \in 0..MaxFrames}} :
                      <<c, w, r>> \in ChannelCounts \X Widths \X FrameRates}}

NoFile == [written |-> FALSE]

BatchOff ==
    /\ inputExists = FALSE
    /\ tree = TreeEmpty
    /\ fs = EmptyFs
    /\ run = 0
    /\ args = [resume |-> FALSE, dry_run |-> FALSE, subjects |-> <<>>]
    /\ pc = "off"
    /\ exitCode = "none"
    /\ hexoskin_dirs = <<>>
    /\ all_results = <<>>
    /\ di = 0
    /\ wav_files = <<>>
    /\ results = <<>>
    /\ child = NoChild
    /\ fsAtStart = EmptyFs
    /\ conv = {}

\* The converter is launched on an input file that exists.
ConverterInit ==
    /\ BatchOff
    /\ CalculatorOff
    /\ wav \in WavFiles
    /\ flags \in [normalize : BOOLEAN, mono : BOOLEAN]
    /\ cpc = "read"
    /\ x = <<>>
    /\ csv_file = NoFile
    /\ meta_file = NoFile
    /\ rc = "none"
    /\ job_entry = <<>>

\* "except Exception as e: print(...); sys.exit(1)"
ExitError ==
    /\ rc' = 1
    /\ cpc' = "exited"

\* Faulty variant: the data are read whatever the sample width is
ReadWavAnyWidth ==
    /\ cpc = "read"
    /\ x' = read_wav_file(wav)
    /\ cpc' = "normalize"
    /\ UNCHANGED <<batchVars, calculatorVars, wav, flags, csv_file, meta_file, rc, job_entry>>

\* "sr, data, wav_info = read_wav_file(input_file)"
ReadWav ==
    /\ cpc = "read"
    /\ IF Decodable(wav)
       THEN x' = read_wav_file(wav) /\ cpc' = "normalize" /\ UNCHANGED rc
       ELSE ExitError /\ UNCHANGED x
    /\ UNCHANGED <<batchVars, calculatorVars, wav, flags, csv_file, meta_file, job_entry>>

\* write_csv_minimal: "if normalize: x = normalize_audio(np.asarray(data))"
Normalize ==
    /\ cpc = "normalize"
    /\ x' = IF flags.normalize THEN normalize_audio(x) ELSE x
    /\ cpc' = "mix"
    /\ UNCHANGED <<batchVars, calculatorVars, wav, flags, csv_file, meta_file, rc, job_entry>>

\* write_csv_minimal: "if mix_mono: x = mix_to_mono(x)"
MixToMono ==
    /\ cpc = "mix"
    /\ x' = IF flags.mono THEN mix_to_mono(x) ELSE x
    /\ cpc' = "savetxt"
    /\ UNCHANGED <<batchVars, calculatorVars, wav, flags, csv_file, meta_file, rc, job_entry>>

\* np.savetxt writes the header and every row.
SaveCsv ==
    /\ cpc = "savetxt"
    /\ csv_file' = [written |-> TRUE, header |-> HeaderOf(x),
                    rows |-> CsvRows(x, wav.framerate)]
    /\ cpc' = "meta"
    /\ UNCHANGED <<batchVars, calculatorVars, wav, flags, x, meta_file, rc, job_entry>>

\* np.savetxt raises (an OSError): the file could not be opened, or it was
\* opened and the write stopped before the last row.
SaveCsvFails ==
    /\ cpc = "savetxt"
    /\ \/ csv_file' = NoFile
       \/ \E k \in 0..(Len(x.rows) - 1) :
             csv_file' = [written |-> TRUE, header |-> HeaderOf(x),
                          rows |-> SubSeq(CsvRows(x, wav.framerate), 1, k)]
    /\ ExitError
    /\ UNCHANGED <<batchVars, calculatorVars, wav, flags, x, meta_file, job_entry>>

\* The descriptor is written, write_csv_minimal returns and main ends.
SaveMeta ==
    /\ cpc = "meta"
    /\ meta_file' = [written |-> TRUE, meta |-> MetaOf(x, wav.framerate, flags)]
    /\ rc' = 0
    /\ cpc' = "exited"
    /\ UNCHANGED <<batchVars, calculatorVars, wav, flags, x, csv_file, job_entry>>

\* open(meta_path, 'w') or json.dump raises.
SaveMetaFails ==
    /\ cpc = "meta"
    /\ ExitError
    /\ UNCHANGED <<batchVars, calculatorVars, wav, flags, x, csv_file, meta_file, job_entry>>

\* convert_wav_to_csv: "if result.returncode == 0: return ... True, 'Success'
\* else: return ... False, f'Error: ...'"
ReturnToBatch ==
    /\ cpc = "exited"
    /\ job_entry' = ConversionResult(IF rc = 0 THEN "exit0" ELSE "exit1")
    /\ cpc' = "returned"
    /\ UNCHANGED <<batchVars, calculatorVars, wav, flags, x, csv_file, meta_file, rc>>

ConverterNext ==
    \/ ReadWav
    \/ Normalize
    \/ MixToMono
    \/ SaveCsv
    \/ SaveCsvFails
    \/ SaveMeta
    \/ SaveMetaFails
    \/ ReturnToBatch

ConverterSpec == ConverterInit /\ [][ConverterNext]_vars

\* Files whose data chunk may end before the size its header declares:
\* wave takes n_frames from the declared size and readframes(n_frames)
\* returns the bytes there are.  Each is a well-formed file of samples 1
\* of which the first n bytes of data are left.
ShortFiles ==
    {[f EXCEPT !.frames = SubSeq(f.frames, 1, n)] :
        <<f, n>> \in
            UNION {{<<f, n>> : n \in 0..Len(f.frames)} :
                      f \in {g \in WavFiles :
                                /\ g.n_frames > 0
                                /\ g.sample_width \in SupportedWidths
                                /\ g.frames = FrameBytes([i \in 1..g.n_frames |->
                                                   [c \in 1..g.n_channels |-> 1]],
                                                         g.sample_width)}}}

\* The converter is launched on a file that may be cut short.
ShortReadInit ==
    /\ BatchOff
    /\ CalculatorOff
    /\ wav \in ShortFiles
    /\ flags \in [normalize : BOOLEAN, mono : BOOLEAN]
    /\ cpc = "read"
    /\ x = <<>>
    /\ csv_file = NoFile
    /\ meta_file = NoFile
    /\ rc = "none"
    /\ job_entry = <<>>

ShortReadSpec == ShortReadInit /\ [][ConverterNext]_vars

(***************************************************************************)
(* The expenditure calculator (caloricExpenditure.py)                       *)
(***************************************************************************)

\* Time is counted in half seconds since midnight of the first sample's day.
EpochSeconds == 15

Epoch == 2 * EpochSeconds

\* np.sqrt of a sum of squares; the samples of the model have integer
\* magnitudes.
Sqrt(n) == CHOOSE r \in 0..n : r * r = n

\* "np.sqrt(df[x_col]**2 + df[y_col]**2 + df[z_col]**2)"
vector_magnitude(row) == Sqrt(row.x * row.x + row.y * row.y + row.z * row.z)

\* The sum of the magnitudes of the rows whose time is in [from, to).
RECURSIVE SumIn(_, _, _)
SumIn(rows, from, to) ==
    IF rows = <<>> THEN 0
    ELSE (IF Head(rows).t >= from /\ Head(rows).t < to
          THEN vector_magnitude(Head(rows)) ELSE 0)
         + SumIn(Tail(rows), from, to)

\* The left edge of the first bin of Series.resample('15S'): by default
\* (origin='start_day', closed='left') the bins are the multiples of the
\* period counted from midnight of the first day, and the first bin is the
\* one that holds the first timestamp.
FirstEdge(rows) == (rows[1].t \div Epoch) * Epoch

\* Faulty variant: the bin that holds the last timestamp is left out
ResampleDropsLast(rows) ==
    LET edge == FirstEdge(rows)
        bins == (rows[Len(rows)].t - edge) \div Epoch
    IN [k \in 1..bins |-> SumIn(rows, edge + (k - 1) * Epoch, edge + k * Epoch)]

\* "df['vector_magnitude'].resample('15S').sum().tolist()": one entry per
\* bin from the first timestamp's to the last timestamp's, empty bins too.
Resample(rows) ==
    LET edge == FirstEdge(rows)
        bins == ((rows[Len(rows)].t - edge) \div Epoch) + 1
    IN [k \in 1..bins |-> SumIn(rows, edge + (k - 1) * Epoch, edge + k * Epoch)]

\* The formulas of calculate_triaxial_expenditure, in units of 10^-5
\* kcal/min: intercept, and the factors of age, weight and count.
MaleIntercept == -10659251
MaleAge == 40825
MaleWeight == 35249
MaleCount == 22485
FemaleIntercept == -5609672
FemaleAge == 38459
FemaleWeight == 16541
FemaleCount == 16912

ee_per_min(count, u) ==
    IF u.gender = "male"
    THEN MaleIntercept + MaleAge * u.age + MaleWeight * u.weight - MaleCount * count
    ELSE FemaleIntercept + FemaleAge * u.age + FemaleWeight * u.weight - FemaleCount * count

Max(a, b) == IF a >= b THEN a ELSE b

\* Faulty variant: the estimate is appended as it is
Unfloored(e) == e

\* "max(0, ee_per_min)"
Floored(e) == Max(0, e)

\* The inputs: a recording that starts on a 15-second mark of the clock or
\* ten seconds after one, sampled every 5 or 7.5 seconds; a person for whom
\* the formulas are negative, and one for whom they are not.
MaxSamples == 3

StartTimes == {0, 20}

Periods == {10, 15}

Accelerations == {[x |-> 0, y |-> 0, z |-> 0], [x |-> 1, y |-> 2, z |-> 2],
                  [x |-> 30, y |-> 40, z |-> 0]}

Recordings ==
    {[period |-> p,
      rows |-> [i \in 1..Len(a) |->
                  [t |-> t0 + (i - 1) * p, x |-> a[i].x, y |-> a[i].y, z |-> a[i].z]]] :
        <<t0, p, a>> \in
            StartTimes \X Periods \X UNION {[1..n -> Accelerations] : n \in 1..MaxSamples}}

Users == [age : {30}, weight : {70, 300}, gender : {"male", "female"}]

CalculatorInit ==
    /\ BatchOff
    /\ ConverterOff
    /\ df \in Recordings
    /\ user_data \in Users
    /\ epc = "counts"
    /\ triaxial_counts = <<>>
    /\ expenditures = <<>>
    /\ activity_expenditure = <<>>

\* "triaxial_counts = convert_to_triaxial_counts(df, ...)"
ConvertToCounts ==
    /\ epc = "counts"
    /\ triaxial_counts' = Resample(df.rows)
    /\ epc' = "epochs"
    /\ UNCHANGED <<batchVars, converterVars, df, user_data, expenditures,
                   activity_expenditure>>

\* One turn of "for count in triaxial_counts".
AppendExpenditure ==
    /\ epc = "epochs"
    /\ Len(expenditures) < Len(triaxial_counts)
    /\ expenditures' =
          Append(expenditures,
                 Floored(ee_per_min(triaxial_counts[Len(expenditures) + 1], user_data)))
    /\ UNCHANGED <<batchVars, converterVars, df, user_data, epc, triaxial_counts,
                   activity_expenditure>>

\* "total_expenditure_kcal = sum(expenditures) / 4", kept as a quotient.
ReturnExpenditure ==
    /\ epc = "epochs"
    /\ Len(expenditures) = Len(triaxial_counts)
    /\ activity_expenditure' = [num |-> SumSeq(expenditures), den |-> 4]
    /\ epc' = "done"
    /\ UNCHANGED <<batchVars, converterVars, df, user_data, triaxial_counts,
                   expenditures>>

CalculatorNext == ConvertToCounts \/ AppendExpenditure \/ ReturnExpenditure

CalculatorSpec == CalculatorInit /\ [][CalculatorNext]_vars

(***************************************************************************)
(* Vocabulary of the properties                                             *)
(***************************************************************************)

\* The run completed: main returned normally.
Finished == pc = "exited" /\ exitCode = 0

\* The subject directories a run with the command line a has to process,
\* and its jobs: one per WAV file of each of them.
SelectedDirs(a) ==
    {d \in GlobHexoskin(tree) :
        a.subjects = <<>> \/ get_subject_id(d) \in Range(a.subjects)}

JobsOf(a) == UNION {{<<d, f>> : f \in GlobWav(tree, d)} : d \in SelectedDirs(a)}

Jobs == JobsOf(args)

RECURSIVE Flatten(_)
Flatten(entries) ==
    IF entries = <<>> THEN <<>> ELSE Head(entries).results \o Flatten(Tail(entries))

\* Every outcome recorded so far in this run, in the order of recording.
Recorded == Flatten(all_results) \o results

EntriesFor(recorded, j) == SelectSeq(recorded, LAMBDA e : e.wav_file = j)

\* The report of the latest run that wrote one before the current run.
Prev == fsAtStart.report

\* The files and directories that exist, whatever they hold.
Artifacts(f) ==
    [root |-> f.root, dirs |-> f.dirs, csv |-> f.csv, meta |-> f.meta,
     report |-> f.report.written]

\* The number print_summary reports as "Total WAV files".
TotalFiles(entries) == SumSeq([k \in 1..Len(entries) |-> entries[k].summary.total])

IsSkipped(e) == e.success /\ e.message = "Skipped (already exists)"

(***************************************************************************)
(* C1                                                                       *)
(***************************************************************************)

\* C1: partial-failure isolation.  When a run completes, each job whose
\* converter exited non-zero or could not be launched has exactly one entry,
\* a failure with its message; every other job has exactly one entry with
\* its own outcome (success for exit 0, "Timeout" for a timeout, skipped or
\* dry-run when nothing was launched); and the persisted report lists one
\* entry for each discovered file.
C1_PartialFailureIsolation ==
    Finished =>
        /\ \A c \in conv :
              /\ c.job \in Jobs
              /\ c.how \in {"exit1", "spawn_error"} =>
                    \A i \in 1..Len(Recorded) :
                        Recorded[i].wav_file = c.job =>
                            /\ ~Recorded[i].success
                            /\ Recorded[i].message = (IF c.how = "exit1" THEN "Error" ELSE "Exception")
              /\ c.how = "exit0" =>
                    \A i \in 1..Len(Recorded) :
                        Recorded[i].wav_file = c.job =>
                            Recorded[i].success /\ Recorded[i].message = "Success"
        /\ \A j \in Jobs :
              /\ Len(EntriesFor(Recorded, j)) = 1
              /\ (\A c \in conv : c.job # j) =>
                    EntriesFor(Recorded, j)[1].message \in {"Skipped (already exists)", "Would process"}
        /\ Len(Recorded) = Cardinality(Jobs)
        /\ fs.report.written
        /\ Flatten(fs.report.results) = Recorded

\* A completed run in which the first file of a subject failed and the next
\* one was converted.
C1_Witness ==
    /\ Finished
    /\ \E k \in 1..Len(all_results) :
          /\ Len(all_results[k].results) = 2
          /\ ~all_results[k].results[1].success
          /\ all_results[k].results[1].message \in {"Error", "Exception"}
          /\ all_results[k].results[2].message = "Success"

(***************************************************************************)
(* C2                                                                       *)
(***************************************************************************)

\* The job wav_file is pending and its turn has come.
AtJob == pc = "files" /\ Len(results) < Len(wav_files)

SkippedEntry(j) == [wav_file |-> j, success |-> TRUE, message |-> "Skipped (already exists)"]

\* The step taken at a pending job records it as skipped, launching nothing
\* and writing nothing.
StepSkips ==
    /\ results' = Append(results, SkippedEntry(wav_file))
    /\ conv' = conv
    /\ fs' = fs
    /\ pc' = "files"

\* The step taken at a pending job does not record it as skipped.
StepDoesNotSkip ==
    ~(Len(results') > Len(results) /\ IsSkipped(results'[Len(results')]))

\* C2 as stated: whenever resume is enabled and the job's CSV exists the job
\* is recorded as skipped and no converter is launched for it; in every other
\* case the job is never skipped.
C2_ResumePolicyAsStated ==
    /\ [][AtJob => IF args.resume /\ output_file \in fs.csv
                   THEN StepSkips ELSE StepDoesNotSkip]_vars
    /\ [](\A i \in 1..Len(Recorded) :
             IsSkipped(Recorded[i]) =>
                 args.resume /\ \A c \in conv : c.job # Recorded[i].wav_file)

\* C2 amended: the same with dry-run off; in a dry run no job is skipped.
C2_ResumePolicy ==
    /\ [][AtJob => IF args.resume /\ ~args.dry_run /\ output_file \in fs.csv
                   THEN StepSkips ELSE StepDoesNotSkip]_vars
    /\ [](\A i \in 1..Len(Recorded) :
             IsSkipped(Recorded[i]) =>
                 /\ args.resume
                 /\ ~args.dry_run
                 /\ \A c \in conv : c.job # Recorded[i].wav_file)

\* A completed resume run that skipped one file of a subject, whose CSV was
\* there, and converted the other, whose CSV was not.
C2_Witness ==
    /\ Finished
    /\ args.resume
    /\ \E k \in 1..Len(all_results) :
          /\ Len(all_results[k].results) = 2
          /\ IsSkipped(all_results[k].results[1])
          /\ all_results[k].results[2].message = "Success"
          /\ \E c \in conv : c.job = all_results[k].results[2].wav_file

(***************************************************************************)
(* C3                                                                       *)
(***************************************************************************)

\* The command line of this run is that of the run whose report was there
\* when it started, and resume is enabled: the orchestrator is run twice.
RunTwiceWithResume == Finished /\ args.resume /\ Prev.written /\ Prev.args = args

AllSkipped == \A i \in 1..Len(Recorded) : IsSkipped(Recorded[i])

\* C3 as stated, read for real (not dry) runs: the second of two runs with
\* resume enabled skips every job and leaves the set of output artifacts
\* unchanged.
C3_ResumeIdempotenceAsStated ==
    (RunTwiceWithResume /\ ~args.dry_run) =>
        AllSkipped /\ Artifacts(fs) = Artifacts(fsAtStart)

\* C3 amended: with dry-run off, the second run skips every job the first
\* run reported as successful, launching no converter for it; when the first
\* run reported every job successful, the second run skips all jobs and
\* leaves the set of output artifacts unchanged.
C3_ResumeIdempotence ==
    (RunTwiceWithResume /\ ~args.dry_run) =>
        LET before == Flatten(Prev.results)
        IN /\ \A i \in 1..Len(before) :
                 before[i].success =>
                     /\ Len(EntriesFor(Recorded, before[i].wav_file)) = 1
                     /\ IsSkipped(EntriesFor(Recorded, before[i].wav_file)[1])
                     /\ \A c \in conv : c.job # before[i].wav_file
           /\ (\A i \in 1..Len(before) : before[i].success) =>
                 /\ AllSkipped
                 /\ Len(Recorded) = Cardinality(Jobs)
                 /\ Artifacts(fs) = Artifacts(fsAtStart)

\* The second of two resume runs over two jobs, the first run having
\* converted both.
C3_Witness ==
    /\ RunTwiceWithResume
    /\ ~args.dry_run
    /\ Len(Recorded) = 2
    /\ AllSkipped
    /\ \A i \in 1..Len(Flatten(Prev.results)) : Flatten(Prev.results)[i].message = "Success"

(***************************************************************************)
(* C4                                                                       *)
(***************************************************************************)

\* The job count of a completed run is the number of WAV files of the
\* selected subjects, in the summary and in the report.
ReportsJobCount ==
    Finished =>
        /\ TotalFiles(all_results) = Cardinality(Jobs)
        /\ TotalFiles(fs.report.results) = Cardinality(Jobs)

\* C4 as stated: a dry run writes nothing at all, and reports the job count
\* a real run would discover.
C4_DryRunWritesNothingAsStated ==
    /\ (run >= 1 /\ args.dry_run) => fs = fsAtStart
    /\ ReportsJobCount

\* C4 amended: a dry run creates or modifies no CSV and no descriptor (it
\* does create the output directories and write the report), and every
\* completed run, dry or real, reports the number of discovered jobs.
C4_DryRunWritesNoData ==
    /\ (run >= 1 /\ args.dry_run) =>
          /\ fs.csv = fsAtStart.csv
          /\ fs.whole = fsAtStart.whole
          /\ fs.meta = fsAtStart.meta
    /\ ReportsJobCount

\* A completed dry run over two jobs, which made the output directories and
\* wrote the report.
C4_Witness ==
    /\ Finished
    /\ args.dry_run
    /\ Cardinality(Jobs) = 2
    /\ fs.report.written
    /\ fs.dirs # fsAtStart.dirs

(***************************************************************************)
(* C5                                                                       *)
(***************************************************************************)

\* The CSV of job j, as the orchestrator names it.
OutputOf(j) == output_file_of(j, subject_output_dir_of(get_subject_id(j[1])))

\* C5: in a dry run no converter is launched, every recorded outcome is the
\* success "Would process", and a completed dry run has recorded exactly one
\* outcome for each discovered job; resume and existing outputs change nothing.
C5_DryRunPolicy ==
    (run >= 1 /\ args.dry_run) =>
        /\ conv = {}
        /\ pc # "running"
        /\ \A i \in 1..Len(Recorded) :
              Recorded[i].success /\ Recorded[i].message = "Would process"
        /\ Finished =>
              \A j \in Jobs : Len(EntriesFor(Recorded, j)) = 1

\* A completed dry run with resume enabled over jobs whose CSVs all exist.
C5_Witness ==
    /\ Finished
    /\ args.dry_run
    /\ args.resume
    /\ Cardinality(Jobs) = 2
    /\ \A j \in Jobs : OutputOf(j) \in fs.csv

(***************************************************************************)
(* C6                                                                       *)
(***************************************************************************)

\* The three discovery-time conditions of main.
AbortCondition ==
    \/ ~inputExists
    \/ GlobHexoskin(tree) = {}
    \/ args.subjects # <<>> /\ SelectedDirs(args) = {}

\* C6: a run under one of the three conditions never gets past discovery: it
\* keeps stepping until it exits, its exit status is 1, no job is started or
\* recorded and the output directory is as it was when the run started.
C6_DiscoveryAbort ==
    (run >= 1 /\ AbortCondition) =>
        /\ pc \in {"validate", "find", "filter", "exited"}
        /\ pc = "exited" => exitCode = 1
        /\ pc # "exited" => ENABLED MainStep
        /\ fs = fsAtStart
        /\ conv = {}
        /\ child = NoChild
        /\ Recorded = <<>>

\* A run that exited 1 because its subject filter matched none of the
\* subjects found, with CSVs of an earlier run in the output directory.
C6_Witness ==
    /\ pc = "exited"
    /\ exitCode = 1
    /\ inputExists
    /\ GlobHexoskin(tree) # {}
    /\ args.subjects # <<>>
    /\ fs.csv # {}

(***************************************************************************)
(* C7                                                                       *)
(***************************************************************************)

\* The run completed, processed every selected subject and persisted its
\* report.
CompletedWithReport ==
    /\ Finished
    /\ Len(all_results) = Len(hexoskin_dirs)
    /\ {all_results[k].hexoskin_dir : k \in 1..Len(all_results)} = SelectedDirs(args)
    /\ fs.report = [written |-> TRUE, args |-> args, results |-> all_results]

\* main is running; the next exit is the exit of this run.
InRun == pc \notin {"idle", "exited"}

\* C7: a run exits 1 only under one of the three discovery-time conditions,
\* and every run that is under none of them eventually has processed all
\* subjects, persisted the report and exited 0, whatever its jobs did.
C7_OnlyDiscoveryStops ==
    /\ [](pc = "exited" => (exitCode = 1 <=> AbortCondition))
    /\ (InRun /\ ~AbortCondition) ~> CompletedWithReport

\* A completed run with its report, all of whose jobs failed or timed out.
C7_Witness ==
    /\ CompletedWithReport
    /\ Len(Recorded) = 2
    /\ Recorded[1].message = "Timeout"
    /\ Recorded[2].message = "Error"

(***************************************************************************)
(* C8                                                                       *)
(***************************************************************************)

\* Every input file of every subject directory of the tree.
AllJobs == UNION {{<<d, f>> : f \in GlobWav(tree, d)} : d \in GlobHexoskin(tree)}

\* The state of the spec's job state machine that a recorded outcome stands
\* for; the hypothetical success of a dry run is a success.
StatusOf(e) ==
    CASE e.message = "Skipped (already exists)" -> "Skipped"
      [] e.message \in {"Success", "Would process"} -> "Succeeded"
      [] e.message = "Timeout" -> "TimedOut"
      [] OTHER -> "Failed"

\* Running while subprocess.run is at work on the job, Pending until an
\* outcome is recorded for it, then the state of its (first) outcome.
JobState(j) ==
    IF pc = "running" /\ wav_file = j THEN "Running"
    ELSE IF EntriesFor(Recorded, j) = <<>> THEN "Pending"
    ELSE StatusOf(EntriesFor(Recorded, j)[1])

StatedStep(s, t) ==
    \/ s = t
    \/ s = "Pending" /\ t \in {"Skipped", "Running"}
    \/ s = "Running" /\ t \in {"Succeeded", "Failed", "TimedOut"}

OneOutcomePerJob ==
    Finished => \A j \in Jobs : Len(EntriesFor(Recorded, j)) = 1

\* C8 as stated: within a run every job moves along Pending -> Skipped or
\* Pending -> Running -> (Succeeded | Failed | TimedOut) only, and a
\* completed run has recorded exactly one outcome per discovered job.
C8_JobStateMachineAsStated ==
    /\ [][run' = run => \A j \in AllJobs : StatedStep(JobState(j), JobState(j)')]_vars
    /\ []OneOutcomePerJob

\* C8 amended: in a dry run a job goes from Pending straight to its
\* (hypothetical) success and takes no other step; in a real run it moves as
\* stated; in both, a completed run has exactly one outcome per job.
C8_JobStateMachine ==
    /\ [][run' = run =>
            \A j \in AllJobs :
                IF args.dry_run
                THEN \/ JobState(j)' = JobState(j)
                     \/ JobState(j) = "Pending" /\ JobState(j)' = "Succeeded"
                ELSE StatedStep(JobState(j), JobState(j)')]_vars
    /\ []OneOutcomePerJob

\* A completed real run with one job per subject, the first timed out and
\* the second skipped.
C8_Witness ==
    /\ Finished
    /\ ~args.dry_run
    /\ Len(all_results) = 2
    /\ \E j1, j2 \in Jobs : JobState(j1) = "TimedOut" /\ JobState(j2) = "Skipped"

(***************************************************************************)
(* C9                                                                       *)
(***************************************************************************)

Ascending(list) == \A i \in 1..(Len(list) - 1) : StrLess(list[i], list[i + 1])

\* The (subject, files) sequence of a report.
JobOrder(entries) ==
    [k \in 1..Len(entries) |->
        <<entries[k].hexoskin_dir,
          [i \in 1..Len(entries[k].results) |-> entries[k].results[i].wav_file]>>]

\* C9: the report of a completed run lists the selected subject directories
\* in ascending order of their paths and, in each, its WAV files in
\* ascending order of theirs; so it lists the same (subject, file) sequence
\* as the report of an earlier run with the same subject filter.
C9_ReportOrder ==
    Finished =>
        /\ fs.report.results = all_results
        /\ Ascending([k \in 1..Len(all_results) |-> all_results[k].hexoskin_dir])
        /\ {all_results[k].hexoskin_dir : k \in 1..Len(all_results)} = SelectedDirs(args)
        /\ \A k \in 1..Len(all_results) :
              LET e == all_results[k]
              IN /\ Ascending([i \in 1..Len(e.results) |-> e.results[i].wav_file[2]])
                 /\ {e.results[i].wav_file : i \in 1..Len(e.results)}
                       = {<<e.hexoskin_dir, f>> : f \in GlobWav(tree, e.hexoskin_dir)}
        /\ (Prev.written /\ Prev.args.subjects = args.subjects) =>
              JobOrder(Prev.results) = JobOrder(all_results)

\* The second completed run over two subjects, one of them with two files.
C9_Witness ==
    /\ Finished
    /\ Prev.written
    /\ Prev.args.subjects = args.subjects
    /\ Len(all_results) = 2
    /\ \E k \in 1..2 : Len(all_results[k].results) = 2

(***************************************************************************)
(* C10                                                                      *)
(***************************************************************************)

\* C10: a converter still running after more than TIMEOUT seconds ends by
\* the timeout, its job is recorded as the failure "Timeout", the run does
\* not exit 1, and it goes on until it has completed with one outcome for
\* every job.
C10_TimeoutContainment ==
    /\ [](\A c \in conv :
             c.late =>
                 /\ c.how = "timeout"
                 /\ Len(EntriesFor(Recorded, c.job)) = 1
                 /\ ~EntriesFor(Recorded, c.job)[1].success
                 /\ EntriesFor(Recorded, c.job)[1].message = "Timeout"
                 /\ pc = "exited" => Finished)
    /\ (InRun /\ \E c \in conv : c.late)
          ~> (Finished /\ \A j \in Jobs : Len(EntriesFor(Recorded, j)) = 1)

\* A completed run in which the first file of a subject timed out and the
\* next one was converted.
C10_Witness ==
    /\ Finished
    /\ \E k \in 1..Len(all_results) :
          /\ Len(all_results[k].results) = 2
          /\ all_results[k].results[1].message = "Timeout"
          /\ \E c \in conv : c.late /\ c.job = all_results[k].results[1].wav_file
          /\ all_results[k].results[2].message = "Success"

(***************************************************************************)
(* C18                                                                      *)
(***************************************************************************)

\* Subject-then-file order of two jobs.
JobLess(j1, j2) ==
    \/ StrLess(j1[1], j2[1])
    \/ j1[1] = j2[1] /\ StrLess(j1[2], j2[2])

Terminal(j) ==
    /\ JobState(j) \in {"Skipped", "Succeeded", "Failed", "TimedOut"}
    /\ Len(EntriesFor(Recorded, j)) = 1

\* C18 Strictly sequential execution: at every point of a run at most one
\* job is Running, the orchestrator stands still in subprocess.run for as
\* long as a converter exists, and a job has begun (it is Running or has an
\* outcome) only if every job before it in subject-then-file order has
\* reached a terminal state and has its outcome among the recorded ones.
C18_StrictlySequential ==
    /\ Cardinality({j \in Jobs : JobState(j) = "Running"}) <= 1
    /\ child.phase # "none" =>
          /\ pc = "running"
          /\ wav_file \in Jobs
          /\ EntriesFor(Recorded, wav_file) = <<>>
    /\ \A j1, j2 \in Jobs :
          (JobLess(j1, j2) /\ JobState(j2) # "Pending") => Terminal(j1)

\* The second subject's job is Running and the first subject's job has
\* failed and is recorded.
C18_Witness ==
    /\ pc = "running"
    /\ child.phase = "write"
    /\ \E j1, j2 \in Jobs :
          /\ j1[1] # j2[1]
          /\ JobLess(j1, j2)
          /\ JobState(j2) = "Running"
          /\ JobState(j1) = "Failed"
          /\ Len(all_results) = 1

(***************************************************************************)
(* C19                                                                      *)
(***************************************************************************)

\* print_summary's other two totals.
TotalSuccess(entries) == SumSeq([k \in 1..Len(entries) |-> entries[k].summary.success])

TotalFailed(entries) == SumSeq([k \in 1..Len(entries) |-> entries[k].summary.failed])

\* The number of outcomes of a list that stand for one of the given states.
CountIn(outcomes, states) ==
    Cardinality({i \in 1..Len(outcomes) : StatusOf(outcomes[i]) \in states})

\* C19 Aggregation: in every subject entry, summary.total is the number of
\* recorded outcomes and the number of WAV files discovered for the subject,
\* summary.success + summary.failed = summary.total, skipped and dry-run
\* outcomes are counted as successes and failed and timed-out ones as
\* failures; the batch-wide totals are the sums of the subjects' totals,
\* which makes them the counts over all the outcomes of the run; the report
\* of a completed run holds those entries.
C19_Aggregation ==
    /\ \A k \in 1..Len(all_results) :
          LET e == all_results[k]
          IN /\ e.summary.total = Len(e.results)
             /\ e.summary.total = Len(e.wav_files)
             /\ e.summary.total = Cardinality(GlobWav(tree, e.hexoskin_dir))
             /\ e.summary.success + e.summary.failed = e.summary.total
             /\ e.summary.success = CountIn(e.results, {"Skipped", "Succeeded"})
             /\ e.summary.failed = CountIn(e.results, {"Failed", "TimedOut"})
             /\ \A i \in 1..Len(e.results) :
                   e.results[i].message \in {"Skipped (already exists)", "Would process"}
                       => e.results[i].success
    /\ TotalFiles(all_results) = Len(Flatten(all_results))
    /\ TotalSuccess(all_results) = CountIn(Flatten(all_results), {"Skipped", "Succeeded"})
    /\ TotalFailed(all_results) = CountIn(Flatten(all_results), {"Failed", "TimedOut"})
    /\ TotalSuccess(all_results) + TotalFailed(all_results) = TotalFiles(all_results)
    /\ Finished =>
          /\ fs.report.results = all_results
          /\ TotalFiles(all_results) = Cardinality(Jobs)

\* A completed run whose report has an entry of two files, one skipped and
\* one timed out, and an entry without files.
C19_Witness ==
    /\ Finished
    /\ \E k \in 1..Len(fs.report.results) :
          LET e == fs.report.results[k]
          IN /\ e.summary = [total |-> 2, success |-> 1, failed |-> 1]
             /\ CountIn(e.results, {"Skipped"}) = 1
             /\ CountIn(e.results, {"TimedOut"}) = 1
    /\ \E k \in 1..Len(fs.report.results) : fs.report.results[k].summary.total = 0

(***************************************************************************)
(* Properties of the converter                                              *)
(***************************************************************************)

\* The elements of an array.
Elements(a) ==
    IF a.ndim = 1 THEN {a.rows[i] : i \in 1..Len(a.rows)}
    ELSE UNION {{a.rows[i][j] : j \in 1..Len(a.rows[i])} : i \in 1..Len(a.rows)}

\* The converter holds the array normalize_audio returned.
Normalized == cpc = "mix" /\ flags.normalize

\* C11 Integer normalization bound: whatever integer samples the decoder
\* returned, up to the ends of the range of their type, every value
\* normalize_audio returns has a magnitude of at most 1.0.
C11_NormalizationBound ==
    Normalized => \A v \in Elements(x) : FLeq(FAbs(v), FOne)

\* A 16-bit and a 32-bit stream holding both ends of their range have been
\* normalized: the values reach -1.0 and, for 32 bits, 1.0.
C11_Witness ==
    /\ Normalized
    /\ wav.sample_width = 4
    /\ wav.n_channels = 2
    /\ FNeg(FOne) \in Elements(x)
    /\ FOne \in Elements(x)

\* The input is silence: every byte is the zero amplitude of its width.
ZeroInput ==
    /\ wav.sample_width \in SupportedWidths
    /\ wav.n_frames > 0
    /\ \A i \in 1..Len(wav.frames) :
          wav.frames[i] = IF wav.sample_width = 1 THEN 128 ELSE 0

\* C12 Zero maps to zero: for the widths 1, 2 and 4, a constant
\* zero-amplitude input (byte 128 for 8 bits, 0 otherwise) is decoded to
\* samples all equal to 0 and normalized to values all exactly 0.0.
C12_ZeroMapsToZero ==
    ZeroInput =>
        /\ cpc = "normalize" => Elements(x) = {0}
        /\ Normalized => Elements(x) = {FZero}

\* An 8-bit stereo file of bytes 128 has been decoded and normalized.
C12_Witness ==
    /\ ZeroInput
    /\ wav.sample_width = 1
    /\ wav.n_channels = 2
    /\ Normalized
    /\ Elements(x) = {FZero}

\* C13 Unsupported format: for an input whose sample width is not 1, 2 or
\* 4 bytes the decoder never returns a sample matrix; the conversion exits
\* with a non-zero code, neither a CSV nor a descriptor is written, and the
\* batch records the job as failed.
C13_UnsupportedFormat ==
    wav.sample_width \notin SupportedWidths =>
        /\ x = <<>>
        /\ cpc \in {"read", "exited", "returned"}
        /\ cpc # "read" => rc = 1
        /\ csv_file = NoFile
        /\ meta_file = NoFile
        /\ cpc = "returned" => job_entry = [success |-> FALSE, message |-> "Error"]

\* A 24-bit file with frames in it has been refused and recorded.
C13_Witness ==
    /\ wav.sample_width = 3
    /\ wav.n_frames > 0
    /\ cpc = "returned"
    /\ rc = 1
    /\ ~job_entry.success

\* The array mix_to_mono was given: the decoded one, normalized if asked.
BeforeMix ==
    IF flags.normalize THEN normalize_audio(read_wav_file(wav)) ELSE read_wav_file(wav)

IsConstant(row) == \A j \in 1..Len(row) : row[j] = row[1]

RECURSIVE RowSum(_)
RowSum(row) == IF row = <<>> THEN 0
               ELSE RowSum(SubSeq(row, 1, Len(row) - 1)) + row[Len(row)]

Mixed == cpc = "savetxt" /\ flags.mono

\* The floats next to a nonzero float, toward zero and away from it.
FTowardZero(a) ==
    IF Abs(a.m) = 2^(MantBits - 1)
    THEN [m |-> IF a.m < 0 THEN -(MantMax - 1) ELSE MantMax - 1, e |-> a.e - 1]
    ELSE [m |-> IF a.m < 0 THEN a.m + 1 ELSE a.m - 1, e |-> a.e]

FAwayFromZero(a) == FNormal(IF a.m < 0 THEN a.m - 1 ELSE a.m + 1, a.e)

\* a is b or, b not being zero, one of the two floats next to b.
FNear(a, b) == a = b \/ (b.m # 0 /\ a \in {FTowardZero(b), FAwayFromZero(b)})

\* m lies within the values of the row, or next to one of them.
FWithin(m, row) ==
    /\ \E j \in 1..Len(row) : FLeq(row[j], m) \/ FNear(m, row[j])
    /\ \E j \in 1..Len(row) : FLeq(m, row[j]) \/ FNear(m, row[j])

\* m is the mean of a row of float32 values as the claim has it: the common
\* value of a constant row, within the row's values, and for two channels
\* half their float sum.
IsFloatMeanAsStated(m, row) ==
    /\ IsConstant(row) => m = row[1]
    /\ FWithin(m, row)
    /\ Len(row) = 2 => FAdd(m, m) = FAdd(row[1], row[2])

\* The same, but that the mean of three or more equal values v need only be
\* v or a float next to v.
IsFloatMean(m, row) ==
    /\ IsConstant(row) => IF Len(row) <= 2 THEN m = row[1] ELSE FNear(m, row[1])
    /\ FWithin(m, row)
    /\ Len(row) = 2 => FAdd(m, m) = FAdd(row[1], row[2])

\* m, which stands for w + r / n, is the mean of a row of integers.
IsIntMean(m, row) ==
    /\ m.n = Len(row)
    /\ m.r >= 0 /\ m.r < m.n
    /\ IsConstant(row) => m.w = row[1] /\ m.r = 0
    /\ ~IsConstant(row) => m.n * m.w + m.r = RowSum(row)

\* C14 as stated: equal channels give exactly their value, always.
C14_MonoMixAsStated ==
    Mixed =>
        IF BeforeMix.ndim = 1 THEN x = BeforeMix
        ELSE /\ x.ndim = 1
             /\ Len(x.rows) = Len(BeforeMix.rows)
             /\ \A i \in 1..Len(x.rows) :
                   IF BeforeMix.dtype = "float32"
                   THEN IsFloatMeanAsStated(x.rows[i], BeforeMix.rows[i])
                   ELSE IsIntMean(x.rows[i], BeforeMix.rows[i])

\* C14 Mono-mix: mix_to_mono returns a single-channel stream unchanged and
\* otherwise, for each frame, the mean of the frame's channel values in the
\* arithmetic of the array.  A frame whose channels all equal v gives
\* exactly v for integer samples and for up to two channels; for three
\* channels of normalized (float32) samples it gives v or a float next to v.
C14_MonoMix ==
    Mixed =>
        IF BeforeMix.ndim = 1 THEN x = BeforeMix
        ELSE /\ x.ndim = 1
             /\ Len(x.rows) = Len(BeforeMix.rows)
             /\ \A i \in 1..Len(x.rows) :
                   IF BeforeMix.dtype = "float32"
                   THEN IsFloatMean(x.rows[i], BeforeMix.rows[i])
                   ELSE IsIntMean(x.rows[i], BeforeMix.rows[i])

\* A normalized 32-bit stream of three channels has been mixed: a frame
\* whose channels differ, and a frame of equal channels whose mean is not
\* their value but the float next to it.
C14_Witness ==
    /\ Mixed
    /\ flags.normalize
    /\ wav.sample_width = 4
    /\ wav.n_channels = 3
    /\ Len(x.rows) = 2
    /\ ~IsConstant(BeforeMix.rows[1])
    /\ IsConstant(BeforeMix.rows[2])
    /\ x.rows[2] # BeforeMix.rows[2][1]
    /\ FNear(x.rows[2], BeforeMix.rows[2][1])

\* The number of output channels: one with --mono, else those of the input.
OutputChannels == IF flags.mono THEN 1 ELSE wav.n_channels

RECURSIVE NDigits(_)
NDigits(d) == IF d < 10 THEN 1 ELSE 1 + NDigits(d \div 10)

\* The decimal t is exactly the quotient i / r.
TimeIsExactly(t, i, r) ==
    IF t.e >= 0 THEN t.d * 10^(t.e) * r = i ELSE t.d * r = i * 10^(-(t.e))

\* The decimal t is the quotient i / r to SigDigits significant digits: it
\* has no more digits and is within half a unit of the last of them.
TimeIsRounded(t, i, r) ==
    /\ NDigits(t.d) <= SigDigits
    /\ t.e <= 0
    /\ 2 * Abs(t.d * r - i * 10^(-(t.e))) * 10^(SigDigits - NDigits(t.d)) <= r

\* What the claim says of the two files but for the time column.
OutputShape ==
    /\ csv_file.written
    /\ Len(csv_file.rows) = wav.n_frames
    /\ csv_file.header = <<"Time_s">> \o [k \in 1..OutputChannels |-> <<"Ch", k>>]
    /\ \A i \in 1..Len(csv_file.rows) : csv_file.rows[i].cells = OutputChannels
    /\ meta_file.written
    /\ meta_file.meta.samples = wav.n_frames
    /\ meta_file.meta.duration_s.num * wav.framerate
          = wav.n_frames * meta_file.meta.duration_s.den
    /\ meta_file.meta.channels = OutputChannels

Converted == cpc = "returned" /\ rc = 0

\* C15 as stated: the time column is i / R.
C15_OutputConsistencyAsStated ==
    Converted =>
        /\ OutputShape
        /\ \A i \in 1..Len(csv_file.rows) :
              TimeIsExactly(csv_file.rows[i].time, i - 1, wav.framerate)

\* C15 Serialized output consistency: for an input of F frames, C channels
\* and frame rate R the CSV has exactly F data rows whose time column is
\* i / R, i = 0..F-1, written with 7 significant digits; its header is
\* Time_s followed by one ChK per output channel; the descriptor has
\* samples = F, duration_s = F / R and channels = 1 with --mono, else C.
C15_OutputConsistency ==
    Converted =>
        /\ OutputShape
        /\ \A i \in 1..Len(csv_file.rows) :
              TimeIsRounded(csv_file.rows[i].time, i - 1, wav.framerate)

\* The scenario of the specification, two frames long, and a file whose
\* frame rate makes the times periodic decimals.
C15_Witness ==
    /\ Converted
    /\ wav.n_frames = 2
    /\ \/ /\ wav.n_channels = 2 /\ wav.sample_width = 2 /\ wav.framerate = 8000
          /\ flags.normalize /\ flags.mono
          /\ meta_file.meta.channels = 1
          /\ csv_file.rows[2].time = [d |-> 125, e |-> -6]
       \/ /\ wav.framerate = 6
          /\ csv_file.rows[2].time = [d |-> 1666667, e |-> -7]

\* The cells of an array, row after row.
Cells(a) == IF a.ndim = 1 THEN a.rows ELSE Flat(a.rows)

\* 2^(8 * width - 1) as a float, and the ends of the signed range of a width.
WidthDenom(width) == [m |-> 2^(MantBits - 1), e |-> 8 * width - MantBits]

WidthMax(width) == IF width = 4 THEN 2147483647 ELSE 2^(8 * width - 1) - 1

WidthMin(width) == -WidthMax(width) - 1

\* C20 Normalization denominator follows the sample width: for the widths
\* 1, 2 and 4 the decoded samples are divided by 128, 32768 and 2147483648,
\* so the most negative sample of the width normalizes to exactly -1.0 and
\* the most positive to a value below +1.0.
C20_DenominatorFollowsWidth ==
    Normalized =>
        LET decoded == Cells(read_wav_file(wav))
            out == Cells(x)
        IN \A i \in 1..Len(out) :
              /\ out[i] = FDiv(F32(decoded[i]), WidthDenom(wav.sample_width))
              /\ decoded[i] = WidthMin(wav.sample_width) => out[i] = FNeg(FOne)
              /\ decoded[i] = WidthMax(wav.sample_width) => FLess(out[i], FOne)

(***************************************************************************)
(* Properties of the expenditure calculator                                 *)
(***************************************************************************)

\* The time the recording covers: its samples times the sampling period.
TotalDuration == Len(df.rows) * df.period

CeilDiv(a, b) == (a + b - 1) \div b

\* C16 Epoch bucketing: whatever the start timestamp, the 15-second buckets
\* are aligned to the first sample's timestamp and the series has exactly
\* ceil(totalDuration / 15 s) entries, the last one being partial when the
\* duration is not a multiple of 15 s: one epoch for a stream of one epoch's
\* duration, two for a stream of one epoch and a half.
C16_EpochBucketing ==
    epc # "counts" =>
        /\ Len(triaxial_counts) = CeilDiv(TotalDuration, Epoch)
        /\ \A k \in 1..Len(triaxial_counts) :
              triaxial_counts[k] =
                  SumIn(df.rows, df.rows[1].t + (k - 1) * Epoch, df.rows[1].t + k * Epoch)

\* The estimate of the k-th epoch before the floor.
Estimate(k) == ee_per_min(triaxial_counts[k], user_data)

\* C17 Energy-expenditure floor: for either gender and any series of epoch
\* counts, an epoch whose formula output is negative contributes 0; the
\* returned activity expenditure is the sum over the epochs of
\* max(0, formula), divided by 4, and is never negative.
C17_ExpenditureFloor ==
    /\ \A k \in 1..Len(expenditures) :
          /\ expenditures[k] >= 0
          /\ Estimate(k) < 0 => expenditures[k] = 0
          /\ Estimate(k) >= 0 => expenditures[k] = Estimate(k)
    /\ epc = "done" =>
          /\ Len(expenditures) = Len(triaxial_counts)
          /\ activity_expenditure.den = 4
          /\ activity_expenditure.num = SumSeq(expenditures)
          /\ activity_expenditure.num >= 0

\* A total has been returned for a series with an epoch whose estimate is
\* negative and an epoch whose estimate is positive.
C17_Witness ==
    /\ epc = "done"
    /\ \E k \in 1..Len(triaxial_counts) : Estimate(k) < 0
    /\ \E k \in 1..Len(triaxial_counts) : Estimate(k) > 0
    /\ activity_expenditure.num > 0

(***************************************************************************)
(* C21                                                                      *)
(***************************************************************************)

\* The bytes the header declares for the audio frames.
DeclaredSpan == wav.n_frames * wav.n_channels * wav.sample_width

ShortRead == Len(wav.frames) < DeclaredSpan

\* read_wav_file raised and the converter wrote nothing.
Rejected ==
    /\ cpc \in {"exited", "returned"}
    /\ rc = 1
    /\ x = <<>>
    /\ ~csv_file.written
    /\ ~meta_file.written

\* C21 Decoded length: whenever the decoder returns a stream its number of
\* frames is the frame count declared in the header; an input whose frame
\* data is shorter than the declared span, or whose sample count is not
\* divisible by the channel count, is rejected with a decode error instead
\* of yielding a shorter stream.
C21_DecodedLength ==
    cpc # "read" =>
        /\ x # <<>> => Len(x.rows) = wav.n_frames
        /\ ShortRead => Rejected
        /\ (Len(wav.frames) \div wav.sample_width) % wav.n_channels # 0 => Rejected

(***************************************************************************)
(* C22                                                                      *)
(***************************************************************************)

\* The epochs whose time bucket holds the time t: the k-th entry of the
\* series stands for the bucket [edge + (k-1) Epoch, edge + k Epoch).
EpochsOf(t) ==
    {k \in 1..Len(triaxial_counts) :
        /\ FirstEdge(df.rows) + (k - 1) * Epoch <= t
        /\ t < FirstEdge(df.rows) + k * Epoch}

\* The rows counted in the k-th epoch.
RowsOf(k) == {i \in 1..Len(df.rows) : k \in EpochsOf(df.rows[i].t)}

Magnitudes == [i \in 1..Len(df.rows) |-> vector_magnitude(df.rows[i])]

\* C22 Epoch conservation: every input sample is counted in exactly one
\* epoch, each entry of the series is the sum of the magnitudes of the
\* samples of its epoch, so the entries add up to the sum of the magnitudes
\* of the whole stream, and the samples of a trailing partial bucket are
\* in the last entry.
C22_EpochConservation ==
    epc # "counts" =>
        /\ \A i \in 1..Len(df.rows) : Cardinality(EpochsOf(df.rows[i].t)) = 1
        /\ \A k \in 1..Len(triaxial_counts) :
              triaxial_counts[k] =
                  SumSeq([i \in 1..Len(df.rows) |->
                             IF i \in RowsOf(k) THEN Magnitudes[i] ELSE 0])
        /\ SumSeq(triaxial_counts) = SumSeq(Magnitudes)
        /\ Len(df.rows) \in RowsOf(Len(triaxial_counts))

\* A series of two epochs whose second one is partial: it holds one sample,
\* of magnitude 50, and the first one two.
C22_Witness ==
    /\ epc # "counts"
    /\ Len(triaxial_counts) = 2
    /\ Cardinality(RowsOf(1)) = 2
    /\ Cardinality(RowsOf(2)) = 1
    /\ triaxial_counts[2] = 50
    /\ triaxial_counts[1] > 0

(***************************************************************************)
(* C23                                                                      *)
(***************************************************************************)

\* Both artifacts of the job are there and the CSV has its last row.
OutputComplete(j) ==
    /\ OutputOf(j) \in fs.csv
    /\ OutputOf(j) \in fs.whole
    /\ meta_path_of(OutputOf(j)) \in fs.meta

\* C23 Partial output is never a success: over any sequence of runs, a
\* resume run after a failed or timed-out conversion included, a job is
\* reported with success = true only if both its CSV and its descriptor
\* were completely written by a conversion that finished successfully.
\* (The hypothetical successes of a dry run are left aside.)
C23_PartialOutputNeverSuccess ==
    ~args.dry_run =>
        \A i \in 1..Len(Recorded) :
            Recorded[i].success => OutputComplete(Recorded[i].wav_file)

\* A resume run reports as skipped, hence as a success, a job whose
\* conversion timed out in the run before and left a CSV without its last
\* row and no descriptor.
SkippedOverPartial ==
    /\ args.resume
    /\ ~args.dry_run
    /\ \E i \in 1..Len(Recorded) :
          /\ IsSkipped(Recorded[i])
          /\ OutputOf(Recorded[i].wav_file) \in fs.csv \ fs.whole
          /\ meta_path_of(OutputOf(Recorded[i].wav_file)) \notin fs.meta
          /\ \E k \in 1..Len(Prev.results) :
                \E n \in 1..Len(Prev.results[k].results) :
                    /\ Prev.results[k].results[n].wav_file = Recorded[i].wav_file
                    /\ Prev.results[k].results[n].message = "Timeout"

(***************************************************************************)
(* C24                                                                      *)
(***************************************************************************)

\* The job has a skip among the outcomes of the current run.
WasSkipped(j) == \E i \in 1..Len(Recorded) : Recorded[i].wav_file = j /\ IsSkipped(Recorded[i])

\* C24 Output paths are job-unique: within one run two different discovered
\* jobs never map to the same output CSV path, two distinct subject
\* identifiers never share an output directory, and so no job is skipped
\* under resume because of a CSV that was not there when the run started
\* and that another job of the run wrote.
C24_OutputPathsUnique ==
    run > 0 =>
        /\ \A j1, j2 \in Jobs : j1 # j2 => OutputOf(j1) # OutputOf(j2)
        /\ \A d1, d2 \in SelectedDirs(args) :
              get_subject_id(d1) # get_subject_id(d2) =>
                  subject_output_dir_of(get_subject_id(d1))
                      # subject_output_dir_of(get_subject_id(d2))
        /\ \A j \in Jobs : WasSkipped(j) => OutputOf(j) \in fsAtStart.csv

\* In a first run with --resume the job of subject "1" is skipped because
\* of the CSV the job of subject "001" has just written.
SkippedOverOtherJob ==
    /\ run = 1
    /\ args.resume
    /\ \E j1, j2 \in Jobs :
          /\ j1 # j2
          /\ get_subject_id(j1[1]) # get_subject_id(j2[1])
          /\ JobState(j1) = "Succeeded"
          /\ WasSkipped(j2)
          /\ OutputOf(j2) \notin fsAtStart.csv

====
